---- MODULE Spec2Model ----
(***************************************************************************)
(* Revenue prediction service: the feature pipeline of                     *)
(* src/models/preprocessing.py (FeatureEngineer, predict_revenue), the     *)
(* startup of src/api/app.py and its /health, /predict, /batch_predict and *)
(* /stats handlers.                                                        *)
(*                                                                         *)
(* Data representation.                                                    *)
(*   - A cell of a DataFrame is a Value: a record [k, n, d, s].            *)
(*       k = "num": the rational n/d (d > 0, lowest terms); integers have  *)
(*                  d = 1.  Floats are modelled by exact rationals.        *)
(*       k = "nan": None / NaN (pandas treats both as missing).            *)
(*       k = "inf": +inf (n = 1) or -inf (n = -1), the IEEE result of a    *)
(*                  non-zero number divided by zero.                       *)
(*       k = "str": the string s, a tuple of one-character strings, so     *)
(*                  that str.lower() can be computed character-wise.       *)
(*   - A raw record (a JSON object / dict) is a function from the field    *)
(*     names it has to Values; a field that is absent is not in DOMAIN.    *)
(*   - A DataFrame is [cols |-> sequence of column names,                  *)
(*                     rows |-> sequence of functions cols -> Value].      *)
(*   - A call that may raise returns [ok, err, df]: ok = FALSE with the    *)
(*     exception's class in err when the Python code raises.               *)
(***************************************************************************)
EXTENDS Integers, Sequences, FiniteSets, TLC

VARIABLES metadata, le_source, le_platform, op, input, output, response, db_rows,
          calls, startup, model, mlflow_info

vars == <<metadata, le_source, le_platform, op, input, output, response, db_rows,
          calls, startup, model, mlflow_info>>

(***************************************************************************)
(* Bounds of the model.                                                    *)
(***************************************************************************)
MaxEvent == 1
MaxBatch == 3
MaxDbRows == 1
MaxThreads == 2

(***************************************************************************)
(* Values.                                                                 *)
(***************************************************************************)
RECURSIVE GCD(_, _)
GCD(a, b) == IF b = 0 THEN a ELSE GCD(b, a % b)

Abs(x) == IF x < 0 THEN -x ELSE x

NaN == [k |-> "nan", n |-> 0, d |-> 1, s |-> <<>>]
Inf(sign) == [k |-> "inf", n |-> sign, d |-> 1, s |-> <<>>]
Str(s) == [k |-> "str", n |-> 0, d |-> 1, s |-> s]

\* The rational n/d (d # 0) in lowest terms with a positive denominator.
Num(n, d) ==
    LET g == GCD(Abs(n), Abs(d))
        sg == IF d < 0 THEN -1 ELSE 1
    IN [k |-> "num", n |-> (sg * n) \div g, d |-> (sg * d) \div g, s |-> <<>>]

IntV(n) == Num(n, 1)

IsNum(v) == v.k = "num"
IsNull(v) == v.k = "nan"
IsFinite(v) == v.k = "num"

\* a < b for two "num" values.
NumLess(a, b) == a.n * b.d < b.n * a.d

(***************************************************************************)
(* pandas element-wise arithmetic.  On numbers a missing operand gives NaN *)
(* and division by zero follows IEEE 754 (x/0 = +-inf, 0/0 = NaN) without  *)
(* raising.  On an object column (one holding a string) the operation is   *)
(* Python's on each pair of cells that are both present, NaN elsewhere:    *)
(* str + str concatenates, str with a number raises TypeError, and so does *)
(* any division with a string.  TypeErrorCell marks the cell whose         *)
(* operation raised.                                                       *)
(***************************************************************************)
TypeErrorCell == [k |-> "error", n |-> 0, d |-> 1, s |-> <<>>]

Add(a, b) ==
    IF a = TypeErrorCell \/ b = TypeErrorCell THEN TypeErrorCell
    ELSE IF IsNum(a) /\ IsNum(b) THEN Num(a.n * b.d + b.n * a.d, a.d * b.d)
    ELSE IF IsNull(a) \/ IsNull(b) THEN NaN
    ELSE IF a.k = "str" /\ b.k = "str" THEN Str(a.s \o b.s)
    ELSE TypeErrorCell

Div(a, b) ==
    IF a = TypeErrorCell \/ b = TypeErrorCell THEN TypeErrorCell
    ELSE IF IsNull(a) \/ IsNull(b) THEN NaN
    ELSE IF ~(IsNum(a) /\ IsNum(b)) THEN TypeErrorCell
    ELSE IF b.n = 0
         THEN (IF a.n = 0 THEN NaN ELSE Inf(IF a.n > 0 THEN 1 ELSE -1))
         ELSE Num(a.n * b.d, a.d * b.n)

\* Series.fillna(fill): missing cells are replaced, the others kept.
FillNa(v, fill) == IF IsNull(v) THEN fill ELSE v

(***************************************************************************)
(* DataFrames.                                                             *)
(***************************************************************************)
Range(seq) == {seq[i] : i \in DOMAIN seq}

HasCol(df, c) == c \in Range(df.cols)

\* df[c] = series (one value per row): the column is appended when new,
\* overwritten otherwise.
SetCol(df, c, series) ==
    [cols |-> IF HasCol(df, c) THEN df.cols ELSE Append(df.cols, c),
     rows |-> [i \in DOMAIN df.rows |->
                 [x \in Range(df.cols) \cup {c} |->
                     IF x = c THEN series[i] ELSE df.rows[i][x]]]]

Ok(df) == [ok |-> TRUE, err |-> "", df |-> df]
Raise(e) == [ok |-> FALSE, err |-> e, df |-> [cols |-> <<>>, rows |-> <<>>]]

\* The key order of a raw record: the order of the documented payload.
FieldOrder ==
    <<"country", "country_region", "source", "platform", "device_family",
      "os_version", "event_1", "event_2", "event_3">>

\* pd.DataFrame(list of dicts): the columns are the keys of any record; a
\* record without the key holds NaN there.
DataFrame(recs) ==
    LET keys == UNION {DOMAIN recs[i] : i \in DOMAIN recs}
        InKeys(c) == c \in keys
    IN [cols |-> SelectSeq(FieldOrder, InKeys),
        rows |-> [i \in DOMAIN recs |->
                    [c \in keys |-> IF c \in DOMAIN recs[i] THEN recs[i][c] ELSE NaN]]]

(***************************************************************************)
(* Strings: str.lower() on the ASCII letters.                              *)
(***************************************************************************)
UpperChars ==
    <<"A", "B", "C", "D", "E", "F", "G", "H", "I", "J", "K", "L", "M",
      "N", "O", "P", "Q", "R", "S", "T", "U", "V", "W", "X", "Y", "Z">>
LowerChars ==
    <<"a", "b", "c", "d", "e", "f", "g", "h", "i", "j", "k", "l", "m",
      "n", "o", "p", "q", "r", "s", "t", "u", "v", "w", "x", "y", "z">>

LowerChar(c) ==
    IF c \in Range(UpperChars)
    THEN LowerChars[CHOOSE i \in DOMAIN UpperChars : UpperChars[i] = c]
    ELSE c

Lower(s) == [i \in DOMAIN s |-> LowerChar(s[i])]

\* Series.str.lower() on one cell of an object column: a cell that is not a
\* string becomes NaN.
StrLower(v) == IF v.k = "str" THEN Str(Lower(v.s)) ELSE NaN

\* The column's dtype is numeric (int64/float64), so the .str accessor raises
\* AttributeError: some cell is a number and no cell is a string.
NumericDtype(df, c) ==
    /\ \E i \in DOMAIN df.rows : IsNum(df.rows[i][c])
    /\ \A i \in DOMAIN df.rows : df.rows[i][c].k # "str"

(***************************************************************************)
(* FeatureEngineer.__init__                                                *)
(***************************************************************************)
FeatureCols(md) == IF "feature_cols" \in DOMAIN md THEN md["feature_cols"] ELSE <<>>

(***************************************************************************)
(* FeatureEngineer.create_derived_features                                 *)
(***************************************************************************)
\* Lines 36-40: on the copy, the nulls of event_3 become 0 when the frame has
\* the column (the fill reaches the frame, as test_create_derived_features
\* asserts); a frame without the column is left as it is.
Event3Filled(df) ==
    IF HasCol(df, "event_3")
    THEN SetCol(df, "event_3",
                [i \in DOMAIN df.rows |-> FillNa(df.rows[i]["event_3"], IntV(0))])
    ELSE df

\* Negative counts clamped to 0 before the sum.
TotalEventsClamped(r) ==
    LET Pos(v) == IF IsNum(v) /\ v.n < 0 THEN IntV(0) ELSE v
    IN Add(Add(Pos(r["event_1"]), Pos(r["event_2"])), Pos(r["event_3"]))

TotalEvents(r) == Add(Add(r["event_1"], r["event_2"]), r["event_3"])

\* The ratio without the + 1 of the denominator.
EventRatioUnsmoothed(r, c) == Div(r[c], r["total_events"])

EventRatio(r, c) == Div(r[c], Add(r["total_events"], IntV(1)))

\* df['total_events'] = df['event_1'] + df['event_2'] + df['event_3']
WithTotal(df) ==
    SetCol(df, "total_events", [i \in DOMAIN df.rows |-> TotalEvents(df.rows[i])])

\* df['<event>_ratio'] = df['<event>'] / (df['total_events'] + 1)
WithRatio(df, event) ==
    SetCol(df, event \o "_ratio",
           [i \in DOMAIN df.rows |-> EventRatio(df.rows[i], event)])

\* The frame the arithmetic of lines 43-48 gave, or the TypeError that the
\* operation on one of its cells raised.
Computed(df) ==
    IF \E i \in DOMAIN df.rows :
          \E c \in {"total_events", "event_1_ratio", "event_2_ratio", "event_3_ratio"} :
              df.rows[i][c] = TypeErrorCell
    THEN Raise("TypeError")
    ELSE Ok(df)

\* Lines 43-48, on the frame whose event_3 was filled: df['event_1'] raises
\* KeyError when the frame has no such column, and so for the other two.
TotalsAndRatios(df) ==
    IF ~HasCol(df, "event_1") \/ ~HasCol(df, "event_2") \/ ~HasCol(df, "event_3")
    THEN Raise("KeyError")
    ELSE Computed(WithRatio(WithRatio(WithRatio(WithTotal(df),
                  "event_1"), "event_2"), "event_3"))

CreateDerivedFeatures(df0) == TotalsAndRatios(Event3Filled(df0))

(***************************************************************************)
(* FeatureEngineer.encode_categorical                                      *)
(***************************************************************************)
\* Series.map(dict) on one cell: the dict's value, NaN for a key not in it.
MapDict(table, v) ==
    IF v.k = "str" /\ v.s \in DOMAIN table THEN table[v.s] ELSE NaN

\* The frequency of an unseen category filled with 0.
FreqEncodeZero(md, df, field, tableKey) ==
    IF HasCol(df, field) /\ tableKey \in DOMAIN md
    THEN SetCol(df, field \o "_freq",
                [i \in DOMAIN df.rows |->
                    FillNa(MapDict(md[tableKey], df.rows[i][field]), IntV(0))])
    ELSE df

\* df[<field>_freq] = df[<field>].map(counts).fillna(1)
FreqEncode(md, df, field, tableKey) ==
    IF HasCol(df, field) /\ tableKey \in DOMAIN md
    THEN SetCol(df, field \o "_freq",
                [i \in DOMAIN df.rows |->
                    FillNa(MapDict(md[tableKey], df.rows[i][field]), IntV(1))])
    ELSE df

RECURSIVE SumValues(_, _)
SumValues(table, keys) ==
    IF keys = {} THEN IntV(0)
    ELSE LET x == CHOOSE y \in keys : TRUE
         IN Add(table[x], SumValues(table, keys \ {x}))

\* np.mean(list(table.values())); NaN for an empty table.
GlobalMean(table) ==
    Div(SumValues(table, DOMAIN table), IntV(Cardinality(DOMAIN table)))

\* The target of an unseen country filled with 0.
TargetEncodeZero(md, df) ==
    IF HasCol(df, "country") /\ "country_mean_revenue" \in DOMAIN md
    THEN SetCol(df, "country_mean_revenue",
                [i \in DOMAIN df.rows |->
                    FillNa(MapDict(md["country_mean_revenue"], df.rows[i]["country"]),
                           IntV(0))])
    ELSE df

TargetEncode(md, df) ==
    IF HasCol(df, "country") /\ "country_mean_revenue" \in DOMAIN md
    THEN SetCol(df, "country_mean_revenue",
                [i \in DOMAIN df.rows |->
                    FillNa(MapDict(md["country_mean_revenue"], df.rows[i]["country"]),
                           GlobalMean(md["country_mean_revenue"]))])
    ELSE df

\* The platform column left in the case it was given in.
PlatformNotNormalized(df) == df

\* df['platform'] = df['platform'].str.lower()
PlatformNormalized(df) ==
    IF HasCol(df, "platform")
    THEN SetCol(df, "platform", [i \in DOMAIN df.rows |-> StrLower(df.rows[i]["platform"])])
    ELSE df

EncodeCategorical(md, df0) ==
    IF HasCol(df0, "platform") /\ NumericDtype(df0, "platform")
    THEN Raise("AttributeError")
    ELSE Ok(TargetEncode(md,
            FreqEncode(md,
            FreqEncode(md,
            FreqEncode(md, PlatformNormalized(df0),
                "country", "country_value_counts"),
                "device_family", "device_family_value_counts"),
                "country_region", "country_region_value_counts")))

(***************************************************************************)
(* FeatureEngineer.transform                                               *)
(***************************************************************************)
\* x in le.classes_
InClasses(classes, v) == v.k = "str" /\ v.s \in Range(classes)

\* LabelEncoder.transform([x])[0]: the 0-based position of x in classes_.
LeTransform(classes, v) ==
    IntV((CHOOSE i \in DOMAIN classes : classes[i] = v.s) - 1)

\* An unseen category given the code 0.
LabelCodeUnseenZero(classes, v) ==
    IF InClasses(classes, v) THEN LeTransform(classes, v) ELSE IntV(0)

LabelCode(classes, v) ==
    IF InClasses(classes, v) THEN LeTransform(classes, v) ELSE IntV(-1)

\* le = <<>> stands for an encoder that was not passed (None).
LabelEncode(df, le, field) ==
    IF le # <<>> /\ HasCol(df, field)
    THEN SetCol(df, field \o "_encoded",
                [i \in DOMAIN df.rows |-> LabelCode(le[1], df.rows[i][field])])
    ELSE df

RECURSIVE FillMissing(_, _)
\* for col in feature_cols: if col not in df.columns: df[col] = 0
FillMissing(df, cols) ==
    IF cols = <<>> THEN df
    ELSE FillMissing(IF HasCol(df, Head(cols)) THEN df
                     ELSE SetCol(df, Head(cols), [i \in DOMAIN df.rows |-> IntV(0)]),
                     Tail(cols))

\* df[feature_cols]
SelectCols(df, cols) ==
    [cols |-> cols,
     rows |-> [i \in DOMAIN df.rows |-> [c \in Range(cols) |-> df.rows[i][c]]]]

\* The selection made whatever the column list: an empty list selects nothing.
AlignColumnsAlwaysSelecting(df, feature_cols) ==
    SelectCols(FillMissing(df, feature_cols), feature_cols)

\* Lines 123-132: if self.feature_cols: fill and select; else: return df.
AlignColumns(df, feature_cols) ==
    IF feature_cols # <<>>
    THEN SelectCols(FillMissing(df, feature_cols), feature_cols)
    ELSE df

\* Lines 108-132, on what encode_categorical returned.
LabelAndAlign(md, r, les, lep) ==
    IF ~r.ok THEN r
    ELSE Ok(AlignColumns(LabelEncode(LabelEncode(r.df, les, "source"), lep, "platform"),
                         FeatureCols(md)))

\* Line 106, on what create_derived_features returned.
EncodeDerived(md, r) == IF ~r.ok THEN r ELSE EncodeCategorical(md, r.df)

Transform(md, df0, les, lep) ==
    LabelAndAlign(md, EncodeDerived(md, CreateDerivedFeatures(df0)), les, lep)

(***************************************************************************)
(* predict_revenue                                                         *)
(***************************************************************************)
\* model.predict(X)[0] is the model's answer: a number, or the marker Raises
\* when the model raises.
Raises == [k |-> "raise", n |-> 0, d |-> 1, s |-> <<>>]

\* max(0.0, float(prediction))
ClampMissing(p) == p
Clamp(p) == IF NumLess(p, IntV(0)) THEN IntV(0) ELSE p

\* A model that raises answered by the prediction 0.
PredictOnDefault(X, model_out) ==
    IF ~X.ok THEN [ok |-> FALSE, err |-> X.err, value |-> NaN]
    ELSE IF model_out = Raises THEN [ok |-> TRUE, err |-> "", value |-> IntV(0)]
    ELSE [ok |-> TRUE, err |-> "", value |-> Clamp(model_out)]

\* Lines 177-180, on the feature matrix X that transform returned.
\* [ok, err, value]: the value returned, or the exception raised.
PredictOn(X, model_out) ==
    IF ~X.ok THEN [ok |-> FALSE, err |-> X.err, value |-> NaN]
    ELSE IF model_out = Raises THEN [ok |-> FALSE, err |-> "ModelError", value |-> NaN]
    ELSE [ok |-> TRUE, err |-> "", value |-> Clamp(model_out)]

PredictRevenue(md, les, lep, input_data, model_out) ==
    PredictOn(Transform(md, DataFrame(<<input_data>>), les, lep), model_out)

NextDigit(prev, d) == <<prev[1] * 10 + ((prev[2] * 10) \div d), (prev[2] * 10) % d>>

RECURSIVE ScaledDiv(_, _, _)
\* <<floor(r * 10^k / d), the remainder>> for 0 <= r < d, one decimal digit
\* at a time.
ScaledDiv(r, d, k) ==
    IF k = 0 THEN <<0, r>>
    ELSE NextDigit(ScaledDiv(r, d, k - 1), d)

\* base + sd[1] is the 6-digit truncation and sd[2]/d the fraction cut off.
RoundHalfEven(base, sd, d) ==
    Num(base + sd[1] + (IF 2 * sd[2] > d THEN 1
                        ELSE IF 2 * sd[2] < d THEN 0
                        ELSE (base + sd[1]) % 2),
        1000000)

\* round(x, 6): to the nearest multiple of 10^-6, ties to the even multiple.
Round6(v) ==
    RoundHalfEven((v.n \div v.d) * 1000000, ScaledDiv(v.n % v.d, v.d, 6), v.d)

(***************************************************************************)
(* The artifacts and the inputs of the model.                              *)
(***************************************************************************)
ES == <<"e", "s">>
US == <<"u", "s">>
AR == <<"a", "r">>
XX == <<"x", "x">>
Madrid == <<"M", "a", "d", "r", "i", "d">>
California == <<"C", "a", "l", "i", "f", "o", "r", "n", "i", "a">>
Oslo == <<"O", "s", "l", "o">>
Samsung == <<"S", "a", "m", "s", "u", "n", "g">>
Organic == <<"O", "r", "g", "a", "n", "i", "c">>
NonOrganic == <<"N", "o", "n", "-", "o", "r", "g", "a", "n", "i", "c">>
Paid == <<"P", "a", "i", "d">>
IOS == <<"i", "O", "S">>
LowerIos == <<"i", "o", "s">>
Android == <<"A", "n", "d", "r", "o", "i", "d">>
LowerAndroid == <<"a", "n", "d", "r", "o", "i", "d">>
Web == <<"w", "e", "b">>
OsVersion == <<"1", "4", ".", "4">>
Seven == <<"7">>

\* LabelEncoder.classes_ of the two encoders (sorted, as fit() leaves them).
SourceClasses == <<NonOrganic, Organic>>
PlatformClasses == <<LowerAndroid, LowerIos>>

AllFeatureCols ==
    <<"event_1", "event_2", "event_3", "total_events",
      "event_1_ratio", "event_2_ratio", "event_3_ratio",
      "country_freq", "country_region_freq", "device_family_freq",
      "source_encoded", "platform_encoded", "country_mean_revenue">>

CountryMeanRevenue == (ES :> Num(1, 5)) @@ (US :> Num(3, 10)) @@ (AR :> Num(3, 20))
CountryCounts == (ES :> IntV(1000)) @@ (US :> IntV(800)) @@ (AR :> IntV(500))
DeviceCounts == (Samsung :> IntV(800))
RegionCounts == (Madrid :> IntV(600)) @@ (California :> IntV(500))

\* The metadata of tests/test_preprocessing.py, setUp.
MdFull ==
    [feature_cols |-> AllFeatureCols,
     country_mean_revenue |-> CountryMeanRevenue,
     country_value_counts |-> CountryCounts,
     device_family_value_counts |-> DeviceCounts,
     country_region_value_counts |-> RegionCounts]

\* Only a target table, of two countries, and the feature columns.
MdMeanOnly ==
    [feature_cols |-> AllFeatureCols,
     country_mean_revenue |-> (ES :> Num(1, 5)) @@ (US :> Num(3, 10))]

\* A column list in another order than the order of computation, naming a
\* column no step computes.
MdLegacy ==
    [feature_cols |-> <<"country_freq", "legacy_feature", "total_events", "platform_encoded">>,
     country_value_counts |-> CountryCounts]

\* The metadata of TestFeatureIntegrity: an empty column list.
MdNoCols == [feature_cols |-> <<>>]

\* FeatureEngineer(None): no metadata at all.
MdEmpty == [x \in {} |-> <<>>]

\* The tables of training without a column list.
MdTablesOnly ==
    [country_mean_revenue |-> CountryMeanRevenue,
     country_value_counts |-> CountryCounts,
     device_family_value_counts |-> DeviceCounts]

\* The bundles metadata.pkl may hold.
Bundles == <<MdFull, MdMeanOnly, MdLegacy, MdNoCols, MdEmpty, MdTablesOnly>>

\* A field left out of a record.
Absent == [k |-> "absent", n |-> 0, d |-> 1, s |-> <<>>]

\* The record with the given values, without the fields given as Absent.
Record(vals) == [f \in {g \in DOMAIN vals : vals[g] # Absent} |-> vals[f]]

\* The counts of a record: integers, null, the string "7", or no field.
EventVals == {IntV(n) : n \in (-MaxEvent)..MaxEvent} \cup {NaN, Absent, Str(Seven)}

BaseRecord ==
    [country |-> Str(ES), country_region |-> Str(Madrid), source |-> Str(Organic),
     platform |-> Str(IOS), device_family |-> Str(Samsung), os_version |-> Str(OsVersion),
     event_1 |-> IntV(1), event_2 |-> IntV(1), event_3 |-> NaN]

EventRecords ==
    {Record([BaseRecord EXCEPT !.event_1 = e1, !.event_2 = e2, !.event_3 = e3]) :
        e1 \in EventVals, e2 \in EventVals, e3 \in EventVals}

CatRecords ==
    {Record([BaseRecord EXCEPT !.country = c, !.country_region = r, !.device_family = d,
                               !.source = s, !.platform = p]) :
        c \in {Str(ES), Str(XX), NaN, Absent},
        r \in {Str(Madrid), Str(Oslo)},
        d \in {Str(Samsung), Absent},
        s \in {Str(Organic), Str(Paid), Absent},
        p \in {Str(IOS), Str(LowerIos), Str(Web), IntV(5), NaN, Absent}}

Records == EventRecords \cup CatRecords

\* A record whose country, source and platform are unseen.
UnseenRecord ==
    Record([BaseRecord EXCEPT !.country = Str(XX), !.source = Str(Paid),
                              !.platform = Str(Android), !.event_1 = IntV(-1)])

\* The records of the batches: a clean one and one without event_2.
BatchRecords == {Record(BaseRecord), Record([BaseRecord EXCEPT !.event_2 = Absent])}

\* A record without country and platform, for the frames of several rows.
BareRecord ==
    Record([BaseRecord EXCEPT !.country = Absent, !.platform = Absent,
                              !.event_3 = IntV(0)])

\* The frames of several rows.
Pairs == [1..2 -> BatchRecords \cup {UnseenRecord, BareRecord}]

\* The answers of model.predict: it raises, -1.5, 0, 1.2345675, 2.5.
ModelOuts == {Raises, Num(-3, 2), IntV(0), Num(12345675, 10000000), Num(5, 2)}
BatchOuts == {Raises, Num(-3, 2), Num(5, 2)}

\* The outcomes of db_manager.log_prediction.
DbOutcomes == {"logged", "unavailable", "raises"}

\* The required fields without the three event counts.
RequiredFieldsWithoutEvents ==
    {"country", "country_region", "source", "platform", "device_family", "os_version"}

RequiredFields == Range(FieldOrder)

(***************************************************************************)
(* The handlers of src/api/app.py.  A response is [status, body]; the body *)
(* is the JSON object, without its timestamp and inference_time_ms.        *)
(***************************************************************************)
Response(status, body) == [status |-> status, body |-> body]

\* One element of the predictions list of /batch_predict.
EntryOf(user_data, r) ==
    IF r.ok
    THEN [input |-> user_data, predicted_revenue |-> Round6(r.value)]
    ELSE [input |-> user_data, error |-> r.err]

BatchEntry(md, les, lep, user_data, model_out) ==
    EntryOf(user_data, PredictRevenue(md, les, lep, user_data, model_out))

RECURSIVE BatchLoopBreaks(_, _, _, _, _, _)
\* The loop leaving at the first record that fails.
BatchLoopBreaks(md, les, lep, users, outs, predictions) ==
    IF users = <<>> THEN predictions
    ELSE IF "error" \in DOMAIN BatchEntry(md, les, lep, Head(users), Head(outs))
         THEN Append(predictions, BatchEntry(md, les, lep, Head(users), Head(outs)))
         ELSE BatchLoopBreaks(md, les, lep, Tail(users), Tail(outs),
                              Append(predictions,
                                     BatchEntry(md, les, lep, Head(users), Head(outs))))

RECURSIVE BatchLoop(_, _, _, _, _, _)
\* for user_data in users: try: ... predictions.append(...) except: ...
BatchLoop(md, les, lep, users, outs, predictions) ==
    IF users = <<>> THEN predictions
    ELSE BatchLoop(md, les, lep, Tail(users), Tail(outs),
                   Append(predictions,
                          BatchEntry(md, les, lep, Head(users), Head(outs))))

\* Lines 205-226 without the logging: 200 with the rounded revenue, or the
\* handler's except clause.
RevenueResponse(r) ==
    IF r.ok
    THEN Response(200, [predicted_revenue |-> Round6(r.value)])
    ELSE Response(500, [error |-> "Internal server error", message |-> r.err])

PredictResponse(md, les, lep, is_json, payload, model_out) ==
    IF ~is_json
    THEN Response(400, [error |-> "Content-Type must be application/json"])
    ELSE IF RequiredFields \ DOMAIN payload # {}
    THEN Response(400, [error |-> "Missing required fields"])
    ELSE RevenueResponse(PredictRevenue(md, les, lep, payload, model_out))

\* A handler answering 200 with no predictions where the users value is
\* absent, empty or no list.
BatchResponseLenient(md, les, lep, is_json, users, outs) ==
    IF ~is_json
    THEN Response(400, [error |-> "Content-Type must be application/json"])
    ELSE IF users.kind = "nobody"
    THEN Response(500, [error |-> "Internal server error", message |-> "AttributeError"])
    ELSE Response(200, [predictions |-> BatchLoop(md, les, lep, users.items, outs, <<>>),
                        total_users |-> Len(users.items)])

\* users: [kind, items], kind = "list" for a JSON array, "absent" when the
\* body has no users key, "notlist" for any other value, "nobody" when the
\* JSON body is no object.
BatchResponse(md, les, lep, is_json, users, outs) ==
    IF ~is_json
    THEN Response(400, [error |-> "Content-Type must be application/json"])
    ELSE IF users.kind = "nobody"
    THEN Response(500, [error |-> "Internal server error", message |-> "AttributeError"])
    ELSE IF users.kind # "list" \/ users.items = <<>>
    THEN Response(400, [error |-> "Expected users array in request body"])
    ELSE Response(200, [predictions |-> BatchLoop(md, les, lep, users.items, outs, <<>>),
                        total_users |-> Len(users.items)])

\* What the database does when the statistics are asked for: it answers,
\* the connection is refused (_get_connection returns None), connecting
\* raises another exception, or one of the three queries fails.
StatsOutcomes == {"ok", "unavailable", "connect_raises", "query_fails"}

\* get_prediction_stats letting the exception of a failed query out.
GetPredictionStatsRaising(outcome, rows) ==
    IF outcome = "unavailable"
    THEN [ok |-> TRUE, err |-> "",
          stats |-> [error |-> "Database connection not available",
                     total_predictions |-> 0]]
    ELSE IF outcome = "ok"
    THEN [ok |-> TRUE, err |-> "", stats |-> [total_predictions |-> rows]]
    ELSE [ok |-> FALSE, err |-> outcome, stats |-> <<>>]

\* DatabaseManager.get_prediction_stats, on a predictions table of the given
\* number of rows: [ok, err, stats].  Of the statistics the model keeps
\* total_predictions, COUNT(*) of the table.
GetPredictionStats(outcome, rows) ==
    IF outcome = "unavailable"
    THEN [ok |-> TRUE, err |-> "",
          stats |-> [error |-> "Database connection not available",
                     total_predictions |-> 0]]
    ELSE IF outcome = "ok"
    THEN [ok |-> TRUE, err |-> "", stats |-> [total_predictions |-> rows]]
    ELSE [ok |-> TRUE, err |-> "",
          stats |-> [error |-> outcome, total_predictions |-> 0]]

\* get_stats: 200 with the statistics, 500 when get_prediction_stats raises.
StatsResponse(r) ==
    IF r.ok
    THEN Response(200, r.stats)
    ELSE Response(500, [error |-> "Failed to retrieve statistics", message |-> r.err])

(***************************************************************************)
(* The startup of src/api/app.py, run once when the module is imported,    *)
(* and GET /health.  A model is named by where it came from; None is <<>>  *)
(* for MLFLOW_INFO, as for an encoder.                                     *)
(***************************************************************************)
\* model = None (line 35), model_from_disk (line 26) and the object
\* mlflow.sklearn.load_model returns (line 101).
NoModel == "None"
DiskModel == "model_from_disk"
MlflowModel == "mlflow_model"

\* The calls of the outer try of setup_mlflow_model, each of which may raise.
RegistrationSteps ==
    {"MLFlowManager", "start_run", "log_model", "log_params", "log_metrics",
     "set_tag", "search_model_versions"}

\* Where setup_mlflow_model raised: at a step of the registration, at
\* mlflow.sklearn.load_model (the inner try), or nowhere.
SetupOutcomes == RegistrationSteps \cup {"load_model", "none"}

\* latest_version: the highest version of the registry, None when the
\* search returns no version.
Versions == {"1", "2", "None"}

\* The fallback left out: the active model stays None when a step raises.
ActiveModelNoFallback(raised_at) ==
    IF raised_at = "none" THEN MlflowModel ELSE NoModel

\* The global model as setup_mlflow_model leaves it: the model loaded from
\* MLflow, model_from_disk when the load raised (line 105) or when a step
\* of the registration raised (line 117).
ActiveModel(raised_at) ==
    IF raised_at = "none" THEN MlflowModel ELSE DiskModel

\* The source written before the load is tried.
MlflowInfoSourceMlflow(active, raised_at, version) ==
    IF raised_at \in RegistrationSteps THEN <<>>
    ELSE <<[run_id |-> "run", version |-> version, model_name |-> "revenue_prediction",
            source |-> "mlflow"]>>

\* What setup_mlflow_model returns: None from the outer except, else the
\* dict of lines 107-112, whose source compares the active model with
\* model_from_disk.
MlflowInfo(active, raised_at, version) ==
    IF raised_at \in RegistrationSteps THEN <<>>
    ELSE <<[run_id |-> "run", version |-> version, model_name |-> "revenue_prediction",
            source |-> IF active # DiskModel THEN "mlflow" ELSE "disk"]>>

\* MODEL_METADATA.get('model_name', 'Unknown')
ModelName(md) == IF "model_name" \in DOMAIN md THEN md["model_name"] ELSE "Unknown"

\* health_check, without the timestamp and the tracking URI.
HealthResponse(md, info) ==
    IF info # <<>>
    THEN Response(200, [status |-> "healthy", model |-> ModelName(md),
                        mlflow_registered |-> TRUE,
                        model_source |-> info[1].source,
                        version |-> info[1].version,
                        mlflow_run_id |-> info[1].run_id,
                        mlflow_model_name |-> info[1].model_name])
    ELSE Response(200, [status |-> "healthy", model |-> ModelName(md),
                        mlflow_registered |-> FALSE,
                        model_source |-> "disk",
                        version |-> "1.0.0"])

(***************************************************************************)
(* The state machine.  metadata, le_source and le_platform are the         *)
(* artifacts load_model_artifacts loaded at import.  The process serves    *)
(* one call at a time: op is "idle" between two calls and names the call   *)
(* being answered otherwise; input is what the call was given, output what *)
(* a FeatureEngineer method returned, response what a handler answers;     *)
(* Return hands the answer over and drops the call's data.  db_rows counts *)
(* the rows of the predictions table.  startup is where the import of the  *)
(* module stands (pc) and where setup_mlflow_model raised (raised_at);     *)
(* model is the global active model and mlflow_info is MLFLOW_INFO.        *)
(***************************************************************************)
NoOutput == Raise("")
NoResponse == Response(0, <<>>)

\* The worker threads of the server, and a thread that serves no call.
Threads == 1..MaxThreads
NoValue == [ok |-> FALSE, err |-> "", value |-> NaN]
IdleCall ==
    [pc |-> "idle", input_data |-> <<>>, model_out |-> NaN,
     frame |-> NoOutput.df, work |-> NoOutput, result |-> NoValue]

\* The process serving after an import during which no MLflow server
\* answered (start_run raised), as when the tests import the module.
Init ==
    /\ \E b \in DOMAIN Bundles : metadata = Bundles[b]
    /\ le_source = <<SourceClasses>>
    /\ le_platform = <<PlatformClasses>>
    /\ op = "idle"
    /\ input = <<>>
    /\ output = NoOutput
    /\ response = NoResponse
    /\ db_rows = 0
    /\ calls = [t \in Threads |-> IdleCall]
    /\ startup = [pc |-> "serving", raised_at |-> "start_run"]
    /\ model = ActiveModel("start_run")
    /\ mlflow_info = MlflowInfo(model, "start_run", "None")

\* The process at the first line of src/api/app.py: nothing is loaded.
InitStartup ==
    /\ metadata = <<>>
    /\ le_source = <<>>
    /\ le_platform = <<>>
    /\ op = "idle"
    /\ input = <<>>
    /\ output = NoOutput
    /\ response = NoResponse
    /\ db_rows = 0
    /\ calls = [t \in Threads |-> IdleCall]
    /\ startup = [pc |-> "import", raised_at |-> ""]
    /\ model = NoModel
    /\ mlflow_info = <<>>

\* Line 26: load_model_artifacts(MODEL_DIR) returns the four artifacts.
LoadModelArtifacts(b) ==
    /\ startup.pc = "import"
    /\ startup' = [startup EXCEPT !.pc = "artifacts_loaded"]
    /\ metadata' = Bundles[b]
    /\ le_source' = <<SourceClasses>>
    /\ le_platform' = <<PlatformClasses>>
    /\ UNCHANGED <<op, input, output, response, db_rows, calls, model, mlflow_info>>

\* Line 26: joblib.load raises (a file of the bundle is missing): the import
\* fails and the process serves nothing.
LoadModelArtifactsRaises ==
    /\ startup.pc = "import"
    /\ startup' = [startup EXCEPT !.pc = "exited"]
    /\ UNCHANGED <<metadata, le_source, le_platform, op, input, output, response,
                   db_rows, calls, model, mlflow_info>>

\* Lines 29-35: DatabaseManager(), whose constructor catches the failures of
\* the database, MODEL_METADATA and model = None.
CreateDatabaseManager ==
    /\ startup.pc = "artifacts_loaded"
    /\ startup' = [startup EXCEPT !.pc = "db_manager"]
    /\ model' = NoModel
    /\ UNCHANGED <<metadata, le_source, le_platform, op, input, output, response,
                   db_rows, calls, mlflow_info>>

\* Line 121: MLFLOW_INFO = setup_mlflow_model(); the routes are defined and
\* the server runs after it.
SetupMlflowModel(raised_at, version) ==
    /\ startup.pc = "db_manager"
    /\ startup' = [pc |-> "serving", raised_at |-> raised_at]
    /\ model' = ActiveModel(raised_at)
    /\ mlflow_info' = MlflowInfo(model', raised_at, version)
    /\ UNCHANGED <<metadata, le_source, le_platform, op, input, output, response,
                   db_rows, calls>>

\* GET /health
HealthCheck ==
    /\ startup.pc = "serving"
    /\ op = "idle"
    /\ op' = "health"
    /\ input' = <<>>
    /\ response' = HealthResponse(metadata, mlflow_info)
    /\ UNCHANGED <<metadata, le_source, le_platform, output, db_rows, calls,
                   startup, model, mlflow_info>>

\* fe.create_derived_features(pd.DataFrame(recs))
CallCreateDerivedFeatures(recs) ==
    /\ op = "idle"
    /\ op' = "create_derived_features"
    /\ input' = [recs |-> recs]
    /\ output' = CreateDerivedFeatures(DataFrame(recs))
    /\ UNCHANGED <<metadata, le_source, le_platform, response, db_rows, calls, startup, model, mlflow_info>>

\* fe.encode_categorical(pd.DataFrame(recs))
CallEncodeCategorical(recs) ==
    /\ op = "idle"
    /\ op' = "encode_categorical"
    /\ input' = [recs |-> recs]
    /\ output' = EncodeCategorical(metadata, DataFrame(recs))
    /\ UNCHANGED <<metadata, le_source, le_platform, response, db_rows, calls, startup, model, mlflow_info>>

\* fe.transform(pd.DataFrame(recs), le_source, le_platform), or without the
\* encoders: fe.transform(pd.DataFrame(recs)).
CallTransform(recs, with_encoders) ==
    /\ op = "idle"
    /\ op' = "transform"
    /\ input' = [recs |-> recs, with_encoders |-> with_encoders]
    /\ output' = Transform(metadata, DataFrame(recs),
                           IF with_encoders THEN le_source ELSE <<>>,
                           IF with_encoders THEN le_platform ELSE <<>>)
    /\ UNCHANGED <<metadata, le_source, le_platform, response, db_rows, calls, startup, model, mlflow_info>>

\* The handler without the try around log_prediction: an exception of the
\* logging reaches the handler's except clause.
PredictFailingOnLog(req) ==
    /\ startup.pc = "serving"
    /\ op = "idle"
    /\ op' = "predict"
    /\ input' = req
    /\ response' = IF req.db = "raises" /\ req.is_json
                       /\ RequiredFields \subseteq DOMAIN req.payload
                    THEN RevenueResponse([ok |-> FALSE, err |-> "OperationalError",
                                          value |-> NaN])
                    ELSE PredictResponse(metadata, le_source, le_platform,
                                         req.is_json, req.payload, req.model_out)
    /\ IF response'.status = 200 /\ req.db = "logged"
       THEN db_rows < MaxDbRows /\ db_rows' = db_rows + 1
       ELSE db_rows' = db_rows
    /\ UNCHANGED <<metadata, le_source, le_platform, output, calls, startup, model, mlflow_info>>

\* POST /predict; req = [is_json, payload, model_out, db].  log_prediction
\* runs in a try of its own after the response was built (lines 212-217):
\* with db = "logged" it inserts a row, with "unavailable" it returns at
\* once (no connection), with "raises" its exception is caught and dropped.
Predict(req) ==
    /\ startup.pc = "serving"
    /\ op = "idle"
    /\ op' = "predict"
    /\ input' = req
    /\ response' = PredictResponse(metadata, le_source, le_platform,
                                   req.is_json, req.payload, req.model_out)
    /\ IF response'.status = 200 /\ req.db = "logged"
       THEN db_rows < MaxDbRows /\ db_rows' = db_rows + 1
       ELSE db_rows' = db_rows
    /\ UNCHANGED <<metadata, le_source, le_platform, output, calls, startup, model, mlflow_info>>

\* POST /batch_predict; req = [is_json, users, outs].
BatchPredict(req) ==
    /\ startup.pc = "serving"
    /\ op = "idle"
    /\ op' = "batch_predict"
    /\ input' = req
    /\ response' = BatchResponse(metadata, le_source, le_platform,
                                 req.is_json, req.users, req.outs)
    /\ UNCHANGED <<metadata, le_source, le_platform, output, db_rows, calls, startup, model, mlflow_info>>

\* GET /stats
GetStats(outcome) ==
    /\ startup.pc = "serving"
    /\ op = "idle"
    /\ op' = "stats"
    /\ input' = [db |-> outcome]
    /\ response' = StatsResponse(GetPredictionStats(outcome, db_rows))
    /\ UNCHANGED <<metadata, le_source, le_platform, output, db_rows, calls, startup, model, mlflow_info>>

\* The call returns: its frame, feature matrix and response go out of scope.
Return ==
    /\ op # "idle"
    /\ op' = "idle"
    /\ input' = <<>>
    /\ output' = NoOutput
    /\ response' = NoResponse
    /\ UNCHANGED <<metadata, le_source, le_platform, db_rows, calls, startup, model, mlflow_info>>

(***************************************************************************)
(* predict_revenue step by step, for calls served by several threads at    *)
(* once.  calls[t] is the call thread t serves: input_data the caller's    *)
(* record, frame the DataFrame of line 171, work what the last step of     *)
(* transform returned, result what predict_revenue returns or raises.  The *)
(* threads share metadata, le_source and le_platform and take no lock.     *)
(***************************************************************************)
\* df = pd.DataFrame([input_data])
BeginPredictRevenue(t, input_data, model_out) ==
    /\ calls[t].pc = "idle"
    /\ calls' = [calls EXCEPT ![t] =
                    [IdleCall EXCEPT !.pc = "created", !.input_data = input_data,
                                     !.model_out = model_out,
                                     !.frame = DataFrame(<<input_data>>)]]
    /\ UNCHANGED <<metadata, le_source, le_platform, op, input, output, response, db_rows, startup, model, mlflow_info>>

\* transform, line 103, writing to the frame it was given instead of a copy.
StepCreateDerivedFeaturesInPlace(t) ==
    /\ calls[t].pc = "created"
    /\ calls' = [calls EXCEPT ![t] =
                    [@ EXCEPT !.pc = "derived",
                              !.work = CreateDerivedFeatures(calls[t].frame),
                              !.frame = Event3Filled(calls[t].frame)]]
    /\ UNCHANGED <<metadata, le_source, le_platform, op, input, output, response, db_rows, startup, model, mlflow_info>>

\* transform, line 103: df = self.create_derived_features(df), on a copy.
StepCreateDerivedFeatures(t) ==
    /\ calls[t].pc = "created"
    /\ calls' = [calls EXCEPT ![t] =
                    [@ EXCEPT !.pc = "derived", !.work = CreateDerivedFeatures(calls[t].frame)]]
    /\ UNCHANGED <<metadata, le_source, le_platform, op, input, output, response, db_rows, startup, model, mlflow_info>>

\* transform, line 106: df = self.encode_categorical(df)
StepEncodeCategorical(t) ==
    /\ calls[t].pc = "derived"
    /\ calls' = [calls EXCEPT ![t] =
                    [@ EXCEPT !.pc = "encoded", !.work = EncodeDerived(metadata, calls[t].work)]]
    /\ UNCHANGED <<metadata, le_source, le_platform, op, input, output, response, db_rows, startup, model, mlflow_info>>

\* The alignment keeping the columns it selected as the store's feature_cols
\* and dropping the tables.
StepLabelAndAlignStoring(t) ==
    /\ calls[t].pc = "encoded"
    /\ calls' = [calls EXCEPT ![t] =
                    [@ EXCEPT !.pc = "features",
                              !.work = LabelAndAlign(metadata, calls[t].work,
                                                     le_source, le_platform)]]
    /\ metadata' = MdNoCols
    /\ UNCHANGED <<le_source, le_platform, op, input, output, response, db_rows, startup, model, mlflow_info>>

\* transform, lines 109-132: label encoding and column alignment.
StepLabelAndAlign(t) ==
    /\ calls[t].pc = "encoded"
    /\ calls' = [calls EXCEPT ![t] =
                    [@ EXCEPT !.pc = "features",
                              !.work = LabelAndAlign(metadata, calls[t].work,
                                                     le_source, le_platform)]]
    /\ UNCHANGED <<metadata, le_source, le_platform, op, input, output, response, db_rows, startup, model, mlflow_info>>

\* predict_revenue, lines 177-180: model.predict(X)[0] and the clamp.
StepModelPredict(t) ==
    /\ calls[t].pc = "features"
    /\ calls' = [calls EXCEPT ![t] =
                    [@ EXCEPT !.pc = "done", !.result = PredictOn(calls[t].work, calls[t].model_out)]]
    /\ UNCHANGED <<metadata, le_source, le_platform, op, input, output, response, db_rows, startup, model, mlflow_info>>

\* predict_revenue returns or raises: its locals go out of scope.
EndPredictRevenue(t) ==
    /\ calls[t].pc = "done"
    /\ calls' = [calls EXCEPT ![t] = IdleCall]
    /\ UNCHANGED <<metadata, le_source, le_platform, op, input, output, response, db_rows, startup, model, mlflow_info>>

(***************************************************************************)
(* The calls the environment makes.                                        *)
(***************************************************************************)
DerivedFrames == {<<r>> : r \in EventRecords} \cup Pairs
CategoricalFrames == {<<r>> : r \in CatRecords} \cup Pairs

TransformCalls ==
    {<<<<r>>, TRUE>> : r \in Records} \cup (Pairs \X BOOLEAN)
    \cup {<<<<r>>, FALSE>> : r \in BatchRecords \cup {UnseenRecord, BareRecord}}

PredictRequests ==
    {[is_json |-> TRUE, payload |-> r, model_out |-> Num(5, 2), db |-> "unavailable"] :
        r \in Records}
    \cup [is_json : BOOLEAN, payload : BatchRecords \cup {UnseenRecord},
          model_out : ModelOuts, db : DbOutcomes]

\* A record of a batch with the answer of the model on it: the clean record
\* with each answer, the record without event_2 (on which the model is not
\* reached) with one.
BatchCases ==
    ({Record(BaseRecord)} \X BatchOuts)
    \cup {<<r, Num(-3, 2)>> : r \in BatchRecords \ {Record(BaseRecord)}}

BatchRequests ==
    UNION {{[is_json |-> TRUE,
             users |-> [kind |-> "list", items |-> [i \in 1..m |-> c[i][1]]],
             outs |-> [i \in 1..m |-> c[i][2]]] :
               c \in [1..m -> BatchCases]} : m \in 0..MaxBatch}
    \cup [is_json : BOOLEAN,
          users : {[kind |-> k, items |-> <<>>] : k \in {"absent", "notlist", "nobody"}},
          outs : {<<>>}]
    \cup {[is_json |-> FALSE, users |-> [kind |-> "list", items |-> <<Record(BaseRecord)>>],
           outs |-> <<Num(5, 2)>>]}

Next ==
    \/ \E recs \in DerivedFrames : CallCreateDerivedFeatures(recs)
    \/ \E recs \in CategoricalFrames : CallEncodeCategorical(recs)
    \/ \E c \in TransformCalls : CallTransform(c[1], c[2])
    \/ \E req \in PredictRequests : Predict(req)
    \/ \E req \in BatchRequests : BatchPredict(req)
    \/ \E outcome \in StatsOutcomes : GetStats(outcome)
    \/ HealthCheck
    \/ Return

Spec == Init /\ [][Next]_vars

\* The requests served after a startup: /predict on the clean record and on
\* the record without event_2, /batch_predict on both.
StartupPredicts ==
    [is_json : {TRUE}, payload : BatchRecords, model_out : {Raises, Num(5, 2)},
     db : DbOutcomes]

StartupBatches ==
    {[is_json |-> TRUE,
      users |-> [kind |-> "list", items |-> <<r1, r2>>],
      outs |-> <<Num(5, 2), Num(-3, 2)>>] : r1 \in BatchRecords, r2 \in BatchRecords}

\* The import of the module, then the server.
NextStartup ==
    \/ \E b \in DOMAIN Bundles : LoadModelArtifacts(b)
    \/ LoadModelArtifactsRaises
    \/ CreateDatabaseManager
    \/ \E raised_at \in SetupOutcomes : \E version \in Versions :
           SetupMlflowModel(raised_at, version)
    \/ HealthCheck
    \/ \E req \in StartupPredicts : Predict(req)
    \/ \E req \in StartupBatches : BatchPredict(req)
    \/ \E outcome \in StatsOutcomes : GetStats(outcome)
    \/ Return

SpecStartup == InitStartup /\ [][NextStartup]_vars

\* The records and the model's answers of the calls served concurrently.
ThreadRecords == BatchRecords \cup {UnseenRecord}
ThreadOuts == {Raises, Num(5, 2)}

NextThreads ==
    \/ \E t \in Threads : \E r \in ThreadRecords : \E o \in ThreadOuts :
           BeginPredictRevenue(t, r, o)
    \/ \E t \in Threads : StepCreateDerivedFeatures(t)
    \/ \E t \in Threads : StepEncodeCategorical(t)
    \/ \E t \in Threads : StepLabelAndAlign(t)
    \/ \E t \in Threads : StepModelPredict(t)
    \/ \E t \in Threads : EndPredictRevenue(t)

SpecThreads == Init /\ [][NextThreads]_vars

(***************************************************************************)
(* Properties.                                                             *)
(***************************************************************************)
\* The cell a frame built from the record holds for the field: NaN when the
\* record has no such key.
Field(rec, f) == IF f \in DOMAIN rec THEN rec[f] ELSE NaN

EventFields == {"event_1", "event_2", "event_3"}

\* The three counts of the record are numbers, event_3 possibly null.
NumericEvents(rec) ==
    /\ IsNum(Field(rec, "event_1"))
    /\ IsNum(Field(rec, "event_2"))
    /\ IsNum(Field(rec, "event_3")) \/ IsNull(Field(rec, "event_3"))

\* The count after the normalization of event_3: a null count is 0.
Count(rec, f) == IF IsNull(Field(rec, f)) THEN 0 ELSE Field(rec, f).n

\* C1: for every input record and every metadata bundle, the output of
\* FeatureEngineer.transform has exactly the columns of feature_cols, in the
\* order of feature_cols, whatever fields the record has or lacks.
C1_OutputHasFeatureCols ==
    op = "transform" =>
        /\ output.ok
        /\ output.df.cols = FeatureCols(metadata)
        /\ \A i \in DOMAIN output.df.rows :
               DOMAIN output.df.rows[i] = Range(FeatureCols(metadata))

\* C2: batch_predict on a non-empty list of N records answers N predictions
\* (total_users = N), element i being made from record i and carrying either
\* a predicted_revenue or an error, never both and never neither; each
\* element is what record i alone, with its own model outcome, gives, so a
\* failure on one record neither stops the loop nor changes another element.
C2_BatchIsolation ==
    (op = "batch_predict" /\ input.is_json /\ input.users.kind = "list"
        /\ input.users.items # <<>>) =>
        LET users == input.users.items
            preds == response.body.predictions
        IN /\ response.status = 200
           /\ Len(preds) = Len(users)
           /\ response.body.total_users = Len(users)
           /\ \A i \in DOMAIN users :
                 /\ preds[i].input = users[i]
                 /\ ("predicted_revenue" \in DOMAIN preds[i]) # ("error" \in DOMAIN preds[i])
                 /\ ("error" \in DOMAIN preds[i]) <=>
                        (input.outs[i] = Raises \/ ~(EventFields \subseteq DOMAIN users[i]))
                 /\ preds[i] = BatchEntry(metadata, le_source, le_platform,
                                          users[i], input.outs[i])

\* A batch of three records in which the model fails on the second: the
\* first and the third carry a prediction, the second an error.
C2_Witness ==
    /\ op = "batch_predict"
    /\ response.status = 200
    /\ Len(input.users.items) = 3
    /\ input.outs[2] = Raises
    /\ Len(response.body.predictions) = 3
    /\ "predicted_revenue" \in DOMAIN response.body.predictions[1]
    /\ "error" \in DOMAIN response.body.predictions[2]
    /\ "predicted_revenue" \in DOMAIN response.body.predictions[3]

\* C3: every value predict_revenue returns, and so every predicted_revenue of
\* a /predict or /batch_predict response, is >= 0: for a model output p the
\* value returned is p when p >= 0 and 0 when p < 0.
C3_RevenueNonNegative ==
    /\ (op = "predict" /\ response.status = 200) =>
          LET p == input.model_out
              r == PredictRevenue(metadata, le_source, le_platform, input.payload, p)
              v == response.body.predicted_revenue
          IN /\ r.ok /\ IsNum(r.value) /\ r.value.n >= 0
             /\ p.n >= 0 => r.value = p
             /\ p.n < 0 => r.value = IntV(0)
             /\ IsNum(v) /\ v.n >= 0
             /\ v = Round6(IF p.n < 0 THEN IntV(0) ELSE p)
    /\ (op = "batch_predict" /\ response.status = 200) =>
          \A i \in DOMAIN response.body.predictions :
             LET e == response.body.predictions[i] IN
             "predicted_revenue" \in DOMAIN e =>
                 IsNum(e.predicted_revenue) /\ e.predicted_revenue.n >= 0

\* The model answered a negative number and /predict answered 200 with 0.
C3_Witness ==
    /\ op = "predict"
    /\ response.status = 200
    /\ input.model_out.n < 0
    /\ response.body.predicted_revenue = IntV(0)

\* C4: create_derived_features yields total_events = event_1 + event_2 +
\* event_3, a null event_3 counting as 0, by the same sum for negative counts
\* as for positive ones; with a null event_1 or event_2 the sum is null.
C4_TotalEventsIsSum ==
    (op = "create_derived_features" /\ output.ok) =>
        \A i \in DOMAIN input.recs :
            LET rec == input.recs[i]
                total == output.df.rows[i]["total_events"]
            IN IF NumericEvents(rec)
               THEN total = IntV(Count(rec, "event_1") + Count(rec, "event_2")
                                 + Count(rec, "event_3"))
               ELSE IsNull(total)

\* A record with a negative event_1 and a null event_3 got its total.
C4_Witness ==
    /\ op = "create_derived_features"
    /\ output.ok
    /\ \E i \in DOMAIN input.recs :
          /\ NumericEvents(input.recs[i])
          /\ input.recs[i]["event_1"].n < 0
          /\ IsNull(input.recs[i]["event_3"])
          /\ output.df.rows[i]["total_events"]
                 = IntV(input.recs[i]["event_1"].n + input.recs[i]["event_2"].n)

\* C5: derived-feature computation accepts a record in which any of event_1,
\* event_2, event_3 is missing or null: it returns without error, with a
\* null or absent event_3 normalized to 0.
C5_MissingEventsAccepted ==
    op = "create_derived_features" =>
        /\ output.ok
        /\ \A i \in DOMAIN input.recs :
               output.df.rows[i]["event_3"]
                   = IF IsNull(Field(input.recs[i], "event_3")) THEN IntV(0)
                     ELSE input.recs[i]["event_3"]

RatioCols == {"event_1_ratio", "event_2_ratio", "event_3_ratio"}

\* The count a ratio column divides.
CountOf(c) ==
    IF c = "event_1_ratio" THEN "event_1"
    ELSE IF c = "event_2_ratio" THEN "event_2" ELSE "event_3"

TotalOf(rec) == Count(rec, "event_1") + Count(rec, "event_2") + Count(rec, "event_3")

NoNegativeCount(rec) == \A f \in EventFields : Count(rec, f) >= 0

\* C6, as claimed, on the records whose counts are numbers: for every such
\* record, negative counts included, each event_i_ratio is computed without
\* division by zero, is finite and is strictly less than 1.
C6_RatiosFiniteBelowOne ==
    (op = "create_derived_features" /\ output.ok) =>
        \A i \in DOMAIN input.recs : \A c \in RatioCols :
            NumericEvents(input.recs[i]) =>
                /\ IsFinite(output.df.rows[i][c])
                /\ NumLess(output.df.rows[i][c], IntV(1))

\* C6, amended: for a record whose counts are numbers (a null event_3 being
\* 0), each ratio is the finite number event_i / (total_events + 1) unless
\* total_events = -1, where the denominator is 0 and no ratio is finite;
\* when no count is negative each ratio lies in [0, 1).  With a null event_1
\* or event_2 the ratios are null.
C6_RatiosFiniteUnlessZeroDenominator ==
    (op = "create_derived_features" /\ output.ok) =>
        \A i \in DOMAIN input.recs : \A c \in RatioCols :
            LET rec == input.recs[i]
                ratio == output.df.rows[i][c]
            IN IF ~NumericEvents(rec) THEN IsNull(ratio)
               ELSE /\ TotalOf(rec) # -1 =>
                          ratio = Num(Count(rec, CountOf(c)), TotalOf(rec) + 1)
                    /\ TotalOf(rec) = -1 => ~IsFinite(ratio)
                    /\ NoNegativeCount(rec) =>
                          ratio.n >= 0 /\ NumLess(ratio, IntV(1))

\* A record with a negative count whose total is not -1: its ratios are
\* finite.
C6_Witness ==
    /\ op = "create_derived_features"
    /\ output.ok
    /\ \E i \in DOMAIN input.recs :
          /\ NumericEvents(input.recs[i])
          /\ ~NoNegativeCount(input.recs[i])
          /\ TotalOf(input.recs[i]) # -1
          /\ \A c \in RatioCols : IsFinite(output.df.rows[i][c])

\* C7, as claimed: for every record whose total_events is 0, whatever the
\* counts that sum to 0, the three ratios are exactly 0.
C7_ZeroTotalZeroRatios ==
    (op = "create_derived_features" /\ output.ok) =>
        \A i \in DOMAIN input.recs :
            output.df.rows[i]["total_events"] = IntV(0) =>
                \A c \in RatioCols : output.df.rows[i][c] = IntV(0)

\* C7, amended: when total_events is 0 the denominator is 1 and each ratio
\* equals its own count; the three ratios are exactly 0 when the three counts
\* are 0, which is every record of total 0 without a negative count.
C7_ZeroTotalRatioIsCount ==
    (op = "create_derived_features" /\ output.ok) =>
        \A i \in DOMAIN input.recs :
            output.df.rows[i]["total_events"] = IntV(0) =>
                \A c \in RatioCols :
                    /\ output.df.rows[i][c] = IntV(Count(input.recs[i], CountOf(c)))
                    /\ NoNegativeCount(input.recs[i]) => output.df.rows[i][c] = IntV(0)

\* The record of counts 0, 0 and null: total 0 and the three ratios 0.
C7_Witness ==
    /\ op = "create_derived_features"
    /\ output.ok
    /\ \E i \in DOMAIN input.recs :
          /\ input.recs[i]["event_1"] = IntV(0)
          /\ input.recs[i]["event_2"] = IntV(0)
          /\ IsNull(input.recs[i]["event_3"])
          /\ output.df.rows[i]["total_events"] = IntV(0)
          /\ \A c \in RatioCols : output.df.rows[i][c] = IntV(0)

FreqTables ==
    [country |-> "country_value_counts",
     device_family |-> "device_family_value_counts",
     country_region |-> "country_region_value_counts"]

InFrame(recs, f) == \E i \in DOMAIN recs : f \in DOMAIN recs[i]

\* C8: for each of country, device_family and country_region, <field>_freq
\* is the training-time count of the record's value when the value is a key
\* of the count table, and exactly 1 for any value that is not.
C8_FrequencyOrOne ==
    (op = "encode_categorical" /\ output.ok) =>
        \A f \in DOMAIN FreqTables :
            (InFrame(input.recs, f) /\ FreqTables[f] \in DOMAIN metadata) =>
                /\ HasCol(output.df, f \o "_freq")
                /\ \A i \in DOMAIN input.recs :
                      LET v == Field(input.recs[i], f)
                          counts == metadata[FreqTables[f]]
                          freq == output.df.rows[i][f \o "_freq"]
                      IN IF v.k = "str" /\ v.s \in DOMAIN counts
                         THEN freq = counts[v.s]
                         ELSE freq = IntV(1)

\* An unseen country beside a known region: frequencies 1 and 600.
C8_Witness ==
    /\ op = "encode_categorical"
    /\ output.ok
    /\ \E i \in DOMAIN input.recs :
          /\ Field(input.recs[i], "country") = Str(XX)
          /\ Field(input.recs[i], "country_region") = Str(Madrid)
          /\ HasCol(output.df, "country_freq")
          /\ HasCol(output.df, "country_region_freq")
          /\ output.df.rows[i]["country_freq"] = IntV(1)
          /\ output.df.rows[i]["country_region_freq"] = IntV(600)

\* m is the arithmetic mean of the values of the table.
IsMeanOf(m, table) ==
    /\ IsNum(m)
    /\ LET total == SumValues(table, DOMAIN table)
       IN m.n * total.d * Cardinality(DOMAIN table) = total.n * m.d

\* C9: country_mean_revenue is the table's value for a country of the
\* country_mean_revenue table and, for a country that is not in it, the
\* arithmetic mean of all the values of the table (0.25 for the table
\* {es: 0.2, us: 0.3}); it is never null nor zero for an unseen country.
C9_TargetOrGlobalMean ==
    (op = "encode_categorical" /\ output.ok /\ InFrame(input.recs, "country")
        /\ "country_mean_revenue" \in DOMAIN metadata) =>
        /\ HasCol(output.df, "country_mean_revenue")
        /\ \A i \in DOMAIN input.recs :
              LET v == Field(input.recs[i], "country")
                  table == metadata["country_mean_revenue"]
                  target == output.df.rows[i]["country_mean_revenue"]
              IN IF v.k = "str" /\ v.s \in DOMAIN table
                 THEN target = table[v.s]
                 ELSE /\ IsMeanOf(target, table)
                      /\ target.n # 0
                      /\ metadata = MdMeanOnly => target = Num(1, 4)

\* The table {es: 0.2, us: 0.3} and the country xx: 0.25.
C9_Witness ==
    /\ op = "encode_categorical"
    /\ output.ok
    /\ metadata = MdMeanOnly
    /\ \E i \in DOMAIN input.recs :
          /\ Field(input.recs[i], "country") = Str(XX)
          /\ output.df.rows[i]["country_mean_revenue"] = Num(1, 4)

\* The codes fit() gave: the positions, from 0, in the sorted vocabulary.
SourceCode(v) ==
    IF v = Str(NonOrganic) THEN 0 ELSE IF v = Str(Organic) THEN 1 ELSE -1

PlatformCode(v) ==
    IF v \in {Str(Android), Str(LowerAndroid)} THEN 0
    ELSE IF v \in {Str(IOS), Str(LowerIos)} THEN 1 ELSE -1

\* C10: for source and the lower-cased platform, label encoding emits the
\* vocabulary's code when the string is in the vocabulary and exactly -1
\* otherwise, so the value is -1 if and only if the string is not in the
\* vocabulary.
C10_LabelCodeOrMinusOne ==
    (op = "transform" /\ output.ok /\ input.with_encoders) =>
        /\ (InFrame(input.recs, "source") /\ HasCol(output.df, "source_encoded")) =>
              \A i \in DOMAIN input.recs :
                 LET v == Field(input.recs[i], "source")
                     code == output.df.rows[i]["source_encoded"]
                 IN /\ code = IntV(SourceCode(v))
                    /\ code = IntV(-1) <=> ~(v.k = "str" /\ v.s \in Range(le_source[1]))
        /\ (InFrame(input.recs, "platform") /\ HasCol(output.df, "platform_encoded")) =>
              \A i \in DOMAIN input.recs :
                 LET v == Field(input.recs[i], "platform")
                     code == output.df.rows[i]["platform_encoded"]
                 IN /\ code = IntV(PlatformCode(v))
                    /\ code = IntV(-1) <=>
                           ~(v.k = "str" /\ Lower(v.s) \in Range(le_platform[1]))

\* An unseen source beside the platform iOS: codes -1 and 1.
C10_Witness ==
    /\ op = "transform"
    /\ output.ok
    /\ input.with_encoders
    /\ HasCol(output.df, "source_encoded")
    /\ HasCol(output.df, "platform_encoded")
    /\ \E i \in DOMAIN input.recs :
          /\ Field(input.recs[i], "source") = Str(Paid)
          /\ Field(input.recs[i], "platform") = Str(IOS)
          /\ output.df.rows[i]["source_encoded"] = IntV(-1)
          /\ output.df.rows[i]["platform_encoded"] = IntV(1)

\* Spellings of the platforms, in several letter cases.
UpperIos == <<"I", "O", "S">>
PlatformSpellings == {IOS, LowerIos, UpperIos, Android, LowerAndroid, Web}

\* The frame of the call with the platform of record i respelled.
Respelled(recs, i, p) == [recs EXCEPT ![i] = [recs[i] EXCEPT !["platform"] = Str(p)]]

\* The encoder a transform call was given: <<>> when it was given none.
GivenEncoder(le) == IF input.with_encoders THEN le ELSE <<>>

\* C11: platform is lower-cased before label encoding and every later
\* lookup: respelling the platform of a record in another letter case leaves
\* what transform returns for the frame unchanged.
C11_PlatformCaseInsensitive ==
    op = "transform" =>
        \A i \in DOMAIN input.recs : \A p \in PlatformSpellings :
            ("platform" \in DOMAIN input.recs[i]
                /\ input.recs[i]["platform"].k = "str"
                /\ Lower(p) = Lower(input.recs[i]["platform"].s)) =>
                Transform(metadata, DataFrame(Respelled(input.recs, i, p)),
                          GivenEncoder(le_source), GivenEncoder(le_platform)) = output

\* The platform spelled iOS got the code of ios, 1, and the feature vector
\* of the record spelled IOS.
C11_Witness ==
    /\ op = "transform"
    /\ output.ok
    /\ input.with_encoders
    /\ Len(input.recs) = 1
    /\ Field(input.recs[1], "platform") = Str(IOS)
    /\ HasCol(output.df, "platform_encoded")
    /\ output.df.rows[1]["platform_encoded"] = IntV(1)
    /\ Transform(metadata, DataFrame(Respelled(input.recs, 1, UpperIos)),
                 le_source, le_platform) = output

\* Each field the record has holds a value of the field's type or null: the
\* platform no number, the event counts no strings.
WellTyped(rec) ==
    /\ ~IsNum(Field(rec, "platform"))
    /\ \A f \in EventFields : Field(rec, f).k \in {"num", "nan"}

\* The columns the steps before the alignment of transform produced for the
\* frame of the call.
UpstreamCols ==
    Range(LabelEncode(
              LabelEncode(
                  EncodeDerived(metadata, CreateDerivedFeatures(DataFrame(input.recs))).df,
                  GivenEncoder(le_source), "source"),
              GivenEncoder(le_platform), "platform").cols)

\* In the returned frame every feature column that no step produced is 0.
UnproducedAreZero ==
    \A c \in Range(FeatureCols(metadata)) \ UpstreamCols :
        \A i \in DOMAIN output.df.rows : output.df.rows[i][c] = IntV(0)

\* C12: transform never fails because an input field or an optional column
\* is missing, and in what it returns every column of feature_cols that no
\* upstream step produced is 0.
C12_MissingNeverFails ==
    (op = "transform" /\ \A i \in DOMAIN input.recs : WellTyped(input.recs[i])) =>
        /\ output.ok
        /\ UnproducedAreZero

\* The part of C12 the code keeps: whenever transform returns, the columns
\* of feature_cols that no upstream step produced are 0.
C12_FilledWhenReturned ==
    (op = "transform" /\ output.ok) => UnproducedAreZero

\* A frame returned with a feature column that no step computes, set to 0.
C12_FilledCase ==
    /\ op = "transform"
    /\ output.ok
    /\ metadata = MdLegacy
    /\ "legacy_feature" \notin UpstreamCols
    /\ output.df.rows[1]["legacy_feature"] = IntV(0)

\* C13: when model.predict raises, /predict answers 500 with an error and no
\* predicted_revenue, and /batch_predict gives the record an error entry
\* with no predicted_revenue: the failure never becomes a number.
C13_ModelFailureReported ==
    /\ (op = "predict" /\ input.is_json /\ RequiredFields \subseteq DOMAIN input.payload
            /\ input.model_out = Raises) =>
           /\ response.status = 500
           /\ "error" \in DOMAIN response.body
           /\ "predicted_revenue" \notin DOMAIN response.body
    /\ (op = "batch_predict" /\ response.status = 200) =>
           \A i \in DOMAIN input.users.items :
               input.outs[i] = Raises =>
                   /\ "error" \in DOMAIN response.body.predictions[i]
                   /\ "predicted_revenue" \notin DOMAIN response.body.predictions[i]

\* /predict on a complete record whose features were computed and on which
\* the model raised: 500 with the model's error.
C13_Witness ==
    /\ op = "predict"
    /\ input.is_json
    /\ RequiredFields \subseteq DOMAIN input.payload
    /\ input.model_out = Raises
    /\ response.status = 500
    /\ response.body.message = "ModelError"

\* The calls whose feature vector transform has returned.
HasFeatures(t) == calls[t].pc \in {"features", "done"}

NoSharedWrite ==
    /\ metadata' = metadata
    /\ le_source' = le_source
    /\ le_platform' = le_platform
    /\ \A t \in Threads :
           (calls[t].pc \notin {"idle", "done"}) =>
               /\ calls'[t].input_data = calls[t].input_data
               /\ calls'[t].frame = calls[t].frame
               /\ calls'[t].frame = DataFrame(<<calls[t].input_data>>)

\* What a finished call returned is what predict_revenue gives for its
\* record and its model answer when run alone.
AsWhenRunAlone ==
    \A t \in Threads :
        calls[t].pc = "done" =>
            calls[t].result = PredictRevenue(metadata, le_source, le_platform,
                                             calls[t].input_data, calls[t].model_out)

\* C16: no step of a prediction writes the metadata store, feature_cols, the
\* vocabularies or the call's own input record and frame, and under every
\* interleaving of the steps of concurrent predictions, taken without a
\* lock, each prediction returns what it returns when run alone.
C16_ConcurrentAsAlone == [][NoSharedWrite]_vars /\ []AsWhenRunAlone

\* Two predictions in flight at once, one finished with its revenue while
\* the other is between two steps of transform.
C16_Witness ==
    /\ calls[1].pc = "done"
    /\ calls[1].result.ok
    /\ calls[1].result.value = Num(5, 2)
    /\ calls[2].pc = "derived"
    /\ calls[2].input_data # calls[1].input_data

\* What transform returns for record i of the call's frame taken alone.
Alone(i) ==
    Transform(metadata, DataFrame(<<input.recs[i]>>),
              GivenEncoder(le_source), GivenEncoder(le_platform))

\* C15, on the frames and records for which both calls return: row i of
\* transform applied to a frame of N records equals the row of transform
\* applied to the one-record frame of record i, whatever the other records
\* of the frame contain or lack.
C15_RowAsAlone ==
    (op = "transform" /\ output.ok) =>
        \A i \in DOMAIN input.recs :
            Alone(i).ok => output.df.rows[i] = Alone(i).df.rows[1]

\* The part of C15 the code keeps: in a frame whose records all have the
\* same fields, each row is the row of the record taken alone.
C15_SameFieldsRowAsAlone ==
    (op = "transform" /\ \A i \in DOMAIN input.recs :
                            DOMAIN input.recs[i] = DOMAIN input.recs[1]
                            /\ WellTyped(input.recs[i])) =>
        \A i \in DOMAIN input.recs :
            /\ output.ok = Alone(i).ok
            /\ output.ok => output.df.rows[i] = Alone(i).df.rows[1]

\* A frame of two different records with the same fields, each row as alone.
C15_SameFieldsCase ==
    /\ op = "transform"
    /\ output.ok
    /\ Len(input.recs) = 2
    /\ input.recs[1] # input.recs[2]
    /\ DOMAIN input.recs[1] = DOMAIN input.recs[2]
    /\ output.df.rows[2] = Alone(2).df.rows[1]

\* The record has the three event fields.
HasEvents(rec) == EventFields \subseteq DOMAIN rec

\* Some count of the record is negative, or a string.
OddCount(rec) ==
    \E f \in EventFields :
        \/ Field(rec, f).k = "str"
        \/ IsNum(Field(rec, f)) /\ Field(rec, f).n < 0

\* C17: a record whose event counts are non-numeric or negative is not
\* rejected: create_derived_features and transform return, the counts being
\* carried through the arithmetic as they are.
C17_OddCountsNotRejected ==
    (/\ op \in {"create_derived_features", "transform"}
     /\ \A i \in DOMAIN input.recs :
            HasEvents(input.recs[i]) /\ ~IsNum(Field(input.recs[i], "platform"))
     /\ \E j \in DOMAIN input.recs : OddCount(input.recs[j])) =>
        output.ok

\* The part of C17 the code keeps: negative counts are not rejected, and the
\* total and the ratios are computed from them as they are.
C17_NegativeCountsAccepted ==
    (op = "create_derived_features"
        /\ \A i \in DOMAIN input.recs :
               HasEvents(input.recs[i]) /\ WellTyped(input.recs[i])) =>
        /\ output.ok
        /\ \A i \in DOMAIN input.recs : \A f \in EventFields :
               f # "event_3" => output.df.rows[i][f] = input.recs[i][f]

\* A record of negative counts that got its total.
C17_NegativeCase ==
    /\ op = "create_derived_features"
    /\ output.ok
    /\ input.recs[1]["event_1"] = IntV(-1)
    /\ input.recs[1]["event_2"] = IntV(-1)
    /\ output.df.rows[1]["total_events"] = IntV(-3)

\* The nine fields /predict requires.
NineFields ==
    {"country", "country_region", "source", "platform", "device_family",
     "os_version", "event_1", "event_2", "event_3"}

\* The answer of /predict is 400 exactly when the request is not JSON or
\* lacks one of the nine fields, and then carries an error and no prediction.
PredictRejects ==
    op = "predict" =>
        IF ~input.is_json \/ ~(NineFields \subseteq DOMAIN input.payload)
        THEN /\ response.status = 400
             /\ "error" \in DOMAIN response.body
             /\ "predicted_revenue" \notin DOMAIN response.body
        ELSE response.status # 400

\* A /predict request answered 400 leaves the predictions table as it was.
RejectedNotLogged ==
    (op' = "predict" /\ response'.status = 400) => db_rows' = db_rows

\* C18: /predict answers 400 with an error, whatever the model would have
\* answered and without a row logged, whenever the request is not JSON or
\* one of the nine required fields is absent from the payload; a field
\* present with a null value is not missing.
C18_PredictValidation == []PredictRejects /\ [][RejectedNotLogged]_vars

\* A JSON request without event_2, on which the model would have raised and
\* whose row the database would have taken: 400 and no row.
C18_Witness ==
    /\ op = "predict"
    /\ input.is_json
    /\ "event_2" \notin DOMAIN input.payload
    /\ input.model_out = Raises
    /\ input.db = "logged"
    /\ response.status = 400
    /\ db_rows = 0

\* C19: /batch_predict answers 400, with an error and no predictions, when
\* the users value of the payload is absent, an empty list, or not a list.
C19_BatchValidation ==
    (op = "batch_predict" /\ input.is_json
        /\ (input.users.kind \in {"absent", "notlist"}
               \/ (input.users.kind = "list" /\ input.users.items = <<>>))) =>
        /\ response.status = 400
        /\ "error" \in DOMAIN response.body
        /\ "predictions" \notin DOMAIN response.body

\* A JSON payload whose users value is not a list: 400.
C19_Witness ==
    /\ op = "batch_predict"
    /\ input.is_json
    /\ input.users.kind = "notlist"
    /\ response.status = 400
    /\ "predictions" \notin DOMAIN response.body

\* C20: /stats always answers 200 with total_predictions in the body:
\* get_prediction_stats never raises, and gives total_predictions = 0 with
\* an error field when the connection is unavailable or a query fails.
C20_StatsAlwaysAnswers ==
    op = "stats" =>
        /\ response.status = 200
        /\ "total_predictions" \in DOMAIN response.body
        /\ IF input.db = "ok"
           THEN /\ response.body.total_predictions = db_rows
                /\ "error" \notin DOMAIN response.body
           ELSE /\ response.body.total_predictions = 0
                /\ "error" \in DOMAIN response.body

\* A query failed on a table that holds a row: 200, total_predictions 0 and
\* an error.
C20_Witness ==
    /\ op = "stats"
    /\ input.db = "query_fails"
    /\ db_rows = 1
    /\ response.status = 200
    /\ response.body.total_predictions = 0
    /\ "error" \in DOMAIN response.body

\* The columns transform computes on the frame of the records: the four
\* derived ones, a frequency column per count table of the metadata whose
\* field the frame has, the target encoding, and the label codes when the
\* encoders were passed.
ComputedCols(recs, with_encoders) ==
    {"total_events"} \cup RatioCols
    \cup {f \o "_freq" : f \in {g \in DOMAIN FreqTables :
                                  FreqTables[g] \in DOMAIN metadata /\ InFrame(recs, g)}}
    \cup (IF "country_mean_revenue" \in DOMAIN metadata /\ InFrame(recs, "country")
          THEN {"country_mean_revenue"} ELSE {})
    \cup {f \o "_encoded" : f \in {g \in {"source", "platform"} :
                                     with_encoders /\ InFrame(recs, g)}}

\* The fields of the records, in the order of the frame.
RawCols(recs) == DataFrame(recs).cols

\* C24: with no feature_cols in the metadata, or an empty list, transform
\* selects no column and fills none: the frame it returns holds every raw
\* field of the input, with the values of the fields no step rewrites, then
\* every derived and encoded column, and nothing else.
C24_NoFeatureColsReturnsAll ==
    (op = "transform" /\ output.ok /\ FeatureCols(metadata) = <<>>) =>
        /\ Range(output.df.cols)
               = Range(RawCols(input.recs)) \cup ComputedCols(input.recs, input.with_encoders)
        /\ SubSeq(output.df.cols, 1, Len(RawCols(input.recs))) = RawCols(input.recs)
        /\ Len(output.df.cols) = Cardinality(Range(output.df.cols))
        /\ {"total_events", "event_1_ratio"} \subseteq Range(output.df.cols)
        /\ DOMAIN output.df.rows = DOMAIN input.recs
        /\ \A i \in DOMAIN input.recs :
              /\ DOMAIN output.df.rows[i] = Range(output.df.cols)
              /\ \A f \in Range(RawCols(input.recs)) \ {"platform", "event_3"} :
                     output.df.rows[i][f] = Field(input.recs[i], f)

\* The tables of training without a column list, on the clean record with
\* both encoders: the frame returned holds the raw country next to
\* total_events, country_freq, country_mean_revenue and source_encoded.
C24_Witness ==
    /\ op = "transform"
    /\ output.ok
    /\ metadata = MdTablesOnly
    /\ input.recs = <<Record(BaseRecord)>>
    /\ input.with_encoders
    /\ Len(output.df.cols) = 18
    /\ {"country", "os_version", "total_events", "country_freq",
        "country_mean_revenue", "source_encoded", "platform_encoded"}
           \subseteq Range(output.df.cols)
    /\ output.df.rows[1]["country"] = Str(ES)
    /\ output.df.rows[1]["country_freq"] = IntV(1000)

\* predict_revenue returned a number on the payload of the request.
RevenueComputed ==
    /\ input.is_json
    /\ NineFields \subseteq DOMAIN input.payload
    /\ PredictRevenue(metadata, le_source, le_platform, input.payload, input.model_out).ok

\* C22: a failure of the database logging never fails /predict: when
\* log_prediction raises, or finds no connection, the handler still
\* answers 200 with the revenue it computed (the clamped answer of the
\* model, rounded to 6 places), as it does when the row is logged.
C22_LogFailureHarmless ==
    (op = "predict" /\ RevenueComputed) =>
        /\ response.status = 200
        /\ DOMAIN response.body = {"predicted_revenue"}
        /\ response.body.predicted_revenue
               = Round6(IF NumLess(input.model_out, IntV(0)) THEN IntV(0)
                        ELSE input.model_out)

\* log_prediction raised after the model answered 1.2345675 on a complete
\* record: 200 with 1.234568 and no row in the table.
C22_Witness ==
    /\ op = "predict"
    /\ RevenueComputed
    /\ input.db = "raises"
    /\ input.model_out = Num(12345675, 10000000)
    /\ response.status = 200
    /\ response.body.predicted_revenue = Num(1234568, 1000000)
    /\ db_rows = 0

\* C21: whenever /predict or /batch_predict runs, the artifacts are loaded,
\* setup_mlflow_model has returned and the active model is set: the model
\* loaded from MLflow when no step raised, the model loaded from disk when
\* a step of the registration or the load from MLflow raised.
C21_ModelSetBeforeServing ==
    op \in {"predict", "batch_predict"} =>
        /\ startup.pc = "serving"
        /\ startup.raised_at \in SetupOutcomes
        /\ metadata \in Range(Bundles)
        /\ le_source # <<>>
        /\ le_platform # <<>>
        /\ model # NoModel
        /\ model = (IF startup.raised_at = "none" THEN MlflowModel ELSE DiskModel)

\* The registration succeeded and the load from MLflow raised: /predict is
\* answered with the model loaded from disk.
C21_Witness ==
    /\ op = "predict"
    /\ startup.raised_at = "load_model"
    /\ mlflow_info # <<>>
    /\ model = DiskModel
    /\ response.status = 200

\* C23: after startup, whatever setup_mlflow_model met, /health reports
\* model_source 'disk' exactly when the active model is the model loaded
\* from disk, and mlflow_registered false with version '1.0.0' exactly when
\* the registration failed, that is when MLFLOW_INFO is None.
C23_HealthReportsStartup ==
    op = "health" =>
        /\ startup.pc = "serving"
        /\ response.status = 200
        /\ response.body.model_source \in {"disk", "mlflow"}
        /\ response.body.model_source = "disk" <=> model = DiskModel
        /\ response.body.mlflow_registered = FALSE <=> mlflow_info = <<>>
        /\ response.body.version = "1.0.0" <=> mlflow_info = <<>>
        /\ mlflow_info = <<>> <=> startup.raised_at \in RegistrationSteps

\* The registration succeeded with version 2 and the load raised: /health
\* reports a registered model served from disk.
C23_Witness ==
    /\ op = "health"
    /\ startup.raised_at = "load_model"
    /\ model = DiskModel
    /\ response.body.mlflow_registered = TRUE
    /\ response.body.model_source = "disk"
    /\ response.body.version = "2"

====
